---- MODULE Spec2Model ----
(***************************************************************************)
(* Model of firesim_top_t (sim/src/main/cc/firesim/firesim_top.cc): the    *)
(* host-side orchestrator that initialises the FPGA models and bridge      *)
(* drivers, resets the target, runs the step/tick loop until a bridge      *)
(* terminates or the cycle budget is exhausted, reports a verdict and      *)
(* finalises every component.                                              *)
(*                                                                         *)
(* run() is modelled statement by statement: pc is the position inside     *)
(* run(), idx the loop variable of the range-for loop being executed.      *)
(* A bridge driver is a record holding what its terminate() and            *)
(* exit_code() return and how often init(), tick() and finish() were       *)
(* called on it; the driver may change what it returns whenever init() or  *)
(* tick() is called on it.                                                 *)
(***************************************************************************)
EXTENDS Integers, Sequences, FiniteSets, TLC

\* ---------------------------------------------------------------- bounds
MaxBridges == 2      \* longest list of registered bridge drivers
MaxModels == 1       \* longest list of registered FPGA models
MaxSteps == 2        \* outer-loop iterations explored
MaxPasses == 2       \* tick passes explored over the whole run
MaxScanned == 4      \* longest driver list in the exit-code scan taken alone

\* ------------------------------------------------------ program constants
ResetPulse == 50     \* target_reset(50)
Unbounded == -1      \* max_cycles = -1 / profile_interval = -1

\* values a driver's exit_code() may return
CodeVals == {0, 3, 7}
\* values +profile-interval= may give (-1: profiling disabled)
ProfileIntervals == {Unbounded, 3}
\* values +max-cycles= may give (-1: no timeout)
MaxCyclesVals == {Unbounded, ResetPulse - 1, ResetPulse + 3}
\* exit codes of the drivers in the exit-code scan taken alone
ExitCodes == CodeVals \cup {5}
\* step sizes the platform may allow as the largest safe one
StepLimits == {2}
\* periods of a task registered with its period as first interval
TaskIntervals == {1, 3}
\* host cycles the platform spends on one target cycle
HostRates == {1, 2}
\* most host cycles the platform may spend on top while it is polled
HostStalls == {0, 1}

VARIABLES
    bridges,          \* std::vector<std::unique_ptr<bridge_driver_t>>
    fpga_models,      \* std::vector<FpgaModel*>
    max_cycles,       \* +max-cycles=, -1 when absent
    profile_interval, \* +profile-interval=, -1 when absent
    do_zero_out_dram, \* +zero-out-dram
    task_active,      \* the profiling task is registered
    task_countdown,   \* target cycles until the profiling task is due
    pc,               \* position inside run()
    idx,              \* loop variable of the current range-for loop
    tcycle,           \* actual_tcycle(): target cycles elapsed
    remaining,        \* cycles of the last step() the target has yet to run
    resets,           \* pulse lengths target_reset() was called with
    zeroed,           \* number of zero_out_dram() calls
    commenced,        \* "Commencing simulation." has been printed
    steps,            \* number of step() calls
    task_runs,        \* number of run_scheduled_tasks() calls
    passes,           \* number of tick passes started
    loop_exit,        \* why the outer loop ended: "none", "complete", "timeout"
    end_cycle,        \* actual_tcycle() read after the loop
    exitcode,         \* int exitcode = exit_code()
    verdicts,         \* verdict lines printed, in order
    metrics,          \* number of times the speed and FMR lines were printed
    pass,             \* simif_t's pass flag, cleared by a failed expect()
    status,           \* exit status handed to the calling process, -1 before
    calls,            \* driver methods and has_timed_out() invoked by the
                      \* last statement
    host_rate,        \* platform: host cycles spent on one target cycle
    host_stall,       \* platform: most host cycles spent on top per poll
    hcycle,           \* hcycle(): host cycles elapsed
    start_hcycle,     \* uint64_t start_hcycle = hcycle();
    loop_hcycle,      \* host cycles elapsed when the loop is entered
    hcycles           \* uint64_t hcycles = hcycle() - start_hcycle;

vars == <<bridges, fpga_models, max_cycles, profile_interval, do_zero_out_dram,
          task_active, task_countdown, pc, idx, tcycle, remaining, resets,
          zeroed, commenced, steps, task_runs, passes, loop_exit, end_cycle,
          exitcode, verdicts, metrics, pass, status, calls, host_rate,
          host_stall, hcycle, start_hcycle, loop_hcycle, hcycles>>

config == <<max_cycles, profile_interval, do_zero_out_dram, host_rate,
            host_stall>>
cycles == <<hcycle, start_hcycle, loop_hcycle, hcycles>>
report == <<end_cycle, exitcode, verdicts, metrics, pass, status>>
sched == <<task_active, task_countdown>>
counts == <<resets, zeroed, commenced, steps, task_runs, passes>>

\* ------------------------------------------------------------- components
NewBridge == [terminate |-> FALSE, exit_code |-> 0,
              inits |-> 0, ticks |-> 0, finishes |-> 0]

\* profiled_as: the position in the last profile_models() pass at which the
\* model was visited, 0 before the first pass
NewModel == [inits |-> 0, profiles |-> 0, profiled_as |-> 0, finishes |-> 0]

SeqsUpTo(n, x) == UNION {[1..k -> {x}] : k \in 0..n}

Min(a, b) == IF a < b THEN a ELSE b

\* ------------------------------------------------- firesim_top_t helpers
\* a range-for loop visiting the vector back to front
reverse_order(len, i) == len - i + 1

\* for (auto &e: v): the element visited by the i-th iteration over a vector
\* of len elements
range_for(len, i) == i

\* is_complete = e->terminate() in place of |=: the last driver alone decides
simulation_complete_last(bs) == Len(bs) > 0 /\ bs[Len(bs)].terminate

RECURSIVE simulation_complete_from(_, _, _)
simulation_complete_from(bs, i, is_complete) ==
    IF i > Len(bs) THEN is_complete
    ELSE simulation_complete_from(bs, i + 1, is_complete \/ bs[i].terminate)

\* bool is_complete = false; for (e: bridges) is_complete |= e->terminate();
simulation_complete(bs) == simulation_complete_from(bs, 1, FALSE)

\* the largest code reported by any driver
exit_code_max(bs) ==
    IF Len(bs) = 0 THEN 0
    ELSE LET cs == {bs[i].exit_code : i \in 1..Len(bs)} IN
         CHOOSE m \in cs : \A c \in cs : c <= m

\* the scan keeps going and returns the last non-zero code
exit_code_last(bs) ==
    LET nz == {i \in 1..Len(bs) : bs[i].exit_code # 0} IN
    IF nz = {} THEN 0
    ELSE bs[CHOOSE i \in nz : \A j \in nz : j <= i].exit_code

RECURSIVE exit_code_from(_, _)
exit_code_from(bs, i) ==
    IF i > Len(bs) THEN 0
    ELSE IF bs[i].exit_code # 0 THEN bs[i].exit_code
    ELSE exit_code_from(bs, i + 1)

\* for (e: bridges) if (e->exit_code()) return e->exit_code(); return 0;
exit_code(bs) == exit_code_from(bs, 1)

\* the timeout predicate on max_cycles and the target cycle count
has_timed_out(mc, t) == mc # Unbounded /\ t >= mc

\* methods simulation_complete() invokes on the drivers
TerminateCalls(bs) == IF Len(bs) > 0 THEN {"terminate"} ELSE {}

\* methods invoked by !simulation_complete() && has_timed_out(), with or
\* without a negation on the second operand: the && does not evaluate
\* has_timed_out() once simulation_complete() is true
ConditionCalls(bs) ==
    TerminateCalls(bs) \cup
        (IF simulation_complete(bs) THEN {} ELSE {"has_timed_out"})

\* ------------------------------------------------------------------- Init
\* the state after firesim_top_t(argc, argv)
Init ==
    /\ bridges \in SeqsUpTo(MaxBridges, NewBridge)
    /\ fpga_models \in SeqsUpTo(MaxModels, NewModel)
    /\ max_cycles \in MaxCyclesVals
    /\ profile_interval \in ProfileIntervals
    /\ do_zero_out_dram \in BOOLEAN
    /\ task_active = (profile_interval # Unbounded)
    /\ task_countdown = 0
    /\ pc = "init_models"
    /\ idx = 1
    /\ tcycle = 0
    /\ remaining = 0
    /\ resets = <<>>
    /\ zeroed = 0
    /\ commenced = FALSE
    /\ steps = 0
    /\ task_runs = 0
    /\ passes = 0
    /\ loop_exit = "none"
    /\ end_cycle = 0
    /\ exitcode = 0
    /\ verdicts = <<>>
    /\ metrics = 0
    /\ pass = TRUE
    /\ status = -1
    /\ calls = {}
    /\ host_rate = 1
    /\ host_stall = 0
    /\ hcycle = 0
    /\ start_hcycle = 0
    /\ loop_hcycle = 0
    /\ hcycles = 0

\* ---------------------------------------------------------------- run()
\* the model init loop left out
InitModels_none ==
    /\ pc = "init_models"
    /\ pc' = "init_bridges"
    /\ idx' = 1
    /\ calls' = {}
    /\ UNCHANGED cycles
    /\ UNCHANGED <<bridges, fpga_models, config, sched, tcycle, remaining,
                   counts, loop_exit, report>>

\* for (auto &e: fpga_models) e->init();
InitModels ==
    /\ pc = "init_models"
    /\ IF idx <= Len(fpga_models)
       THEN /\ fpga_models' = [fpga_models EXCEPT
                    ![range_for(Len(fpga_models), idx)].inits = @ + 1]
            /\ idx' = idx + 1
            /\ pc' = pc
       ELSE /\ pc' = "init_bridges"
            /\ idx' = 1
            /\ UNCHANGED fpga_models
    /\ calls' = {}
    /\ UNCHANGED cycles
    /\ UNCHANGED <<bridges, config, sched, tcycle, remaining, counts,
                   loop_exit, report>>

\* the loop stops one element early (idx < size)
InitBridges_short ==
    /\ pc = "init_bridges"
    /\ IF idx < Len(bridges)
       THEN /\ \E t \in BOOLEAN, c \in CodeVals :
                 LET e == range_for(Len(bridges), idx) IN
                 bridges' = [bridges EXCEPT ![e].inits = @ + 1,
                                            ![e].terminate = t,
                                            ![e].exit_code = c]
            /\ idx' = idx + 1
            /\ pc' = pc
            /\ calls' = {"init"}
       ELSE /\ pc' = "zero"
            /\ idx' = 1
            /\ calls' = {}
            /\ UNCHANGED bridges
    /\ UNCHANGED cycles
    /\ UNCHANGED <<fpga_models, config, sched, tcycle, remaining, counts,
                   loop_exit, report>>

\* for (auto &e: bridges) e->init();
InitBridges ==
    /\ pc = "init_bridges"
    /\ IF idx <= Len(bridges)
       THEN /\ \E t \in BOOLEAN, c \in CodeVals :
                 LET e == range_for(Len(bridges), idx) IN
                 bridges' = [bridges EXCEPT ![e].inits = @ + 1,
                                            ![e].terminate = t,
                                            ![e].exit_code = c]
            /\ idx' = idx + 1
            /\ pc' = pc
            /\ calls' = {"init"}
       ELSE /\ pc' = "zero"
            /\ idx' = 1
            /\ calls' = {}
            /\ UNCHANGED bridges
    /\ UNCHANGED cycles
    /\ UNCHANGED <<fpga_models, config, sched, tcycle, remaining, counts,
                   loop_exit, report>>

\* zero_out_dram() called whatever the flag
ZeroOutDram_always ==
    /\ pc = "zero"
    /\ zeroed' = zeroed + 1
    /\ hcycle' = hcycle + host_rate
    /\ pc' = "commence"
    /\ calls' = {}
    /\ UNCHANGED <<start_hcycle, loop_hcycle, hcycles>>
    /\ UNCHANGED <<bridges, fpga_models, config, sched, idx, tcycle, remaining,
                   resets, commenced, steps, task_runs, passes, loop_exit,
                   report>>

\* if (do_zero_out_dram) { ...; zero_out_dram(); }
ZeroOutDram ==
    /\ pc = "zero"
    /\ zeroed' = IF do_zero_out_dram THEN zeroed + 1 ELSE zeroed
    /\ hcycle' = IF do_zero_out_dram THEN hcycle + host_rate ELSE hcycle
    /\ pc' = "commence"
    /\ calls' = {}
    /\ UNCHANGED <<start_hcycle, loop_hcycle, hcycles>>
    /\ UNCHANGED <<bridges, fpga_models, config, sched, idx, tcycle, remaining,
                   resets, commenced, steps, task_runs, passes, loop_exit,
                   report>>

\* fprintf(stderr, "Commencing simulation.\n");
\* uint64_t start_hcycle = hcycle(); uint64_t start_time = timestamp();
Commence ==
    /\ pc = "commence"
    /\ commenced' = TRUE
    /\ start_hcycle' = hcycle
    /\ UNCHANGED <<hcycle, loop_hcycle, hcycles>>
    /\ pc' = "reset"
    /\ calls' = {}
    /\ UNCHANGED <<bridges, fpga_models, config, sched, idx, tcycle, remaining,
                   resets, zeroed, steps, task_runs, passes, loop_exit, report>>

\* the reset call left out
TargetReset_missing ==
    /\ pc = "reset"
    /\ pc' = "outer"
    /\ calls' = {}
    /\ loop_hcycle' = hcycle
    /\ UNCHANGED <<hcycle, start_hcycle, hcycles>>
    /\ UNCHANGED <<bridges, fpga_models, config, sched, idx, tcycle, remaining,
                   counts, loop_exit, report>>

\* start_hcycle = hcycle() moved behind the reset
TargetReset_then_start ==
    /\ pc = "reset"
    /\ resets' = Append(resets, ResetPulse)
    /\ tcycle' = tcycle + ResetPulse
    /\ \E s \in 0..host_stall :
          /\ hcycle' = hcycle + host_rate * ResetPulse + s
          /\ loop_hcycle' = hcycle + host_rate * ResetPulse + s
          /\ start_hcycle' = hcycle + host_rate * ResetPulse + s
    /\ UNCHANGED hcycles
    /\ pc' = "outer"
    /\ calls' = {}
    /\ UNCHANGED <<bridges, fpga_models, config, sched, idx, remaining,
                   zeroed, commenced, steps, task_runs, passes, loop_exit,
                   report>>

\* target_reset(50);
TargetReset ==
    /\ pc = "reset"
    /\ resets' = Append(resets, ResetPulse)
    /\ tcycle' = tcycle + ResetPulse
    /\ \E s \in 0..host_stall :
          /\ hcycle' = hcycle + host_rate * ResetPulse + s
          /\ loop_hcycle' = hcycle + host_rate * ResetPulse + s
    /\ UNCHANGED <<start_hcycle, hcycles>>
    /\ pc' = "outer"
    /\ calls' = {}
    /\ UNCHANGED <<bridges, fpga_models, config, sched, idx, remaining,
                   zeroed, commenced, steps, task_runs, passes, loop_exit,
                   report>>

\* do { ... } while (!simulation_complete() && !has_timed_out());
OuterCheck_do_while ==
    /\ pc = "outer"
    /\ IF task_runs = 0
       THEN /\ pc' = "tasks"
            /\ calls' = {}
            /\ UNCHANGED loop_exit
       ELSE /\ IF simulation_complete(bridges)
               THEN /\ loop_exit' = "complete"
                    /\ pc' = "stop"
               ELSE IF has_timed_out(max_cycles, tcycle)
               THEN /\ loop_exit' = "timeout"
                    /\ pc' = "stop"
               ELSE /\ pc' = "tasks"
                    /\ UNCHANGED loop_exit
            /\ calls' = ConditionCalls(bridges)
    /\ UNCHANGED cycles
    /\ UNCHANGED <<bridges, fpga_models, config, sched, idx, tcycle, remaining,
                   counts, report>>

\* while (!has_timed_out()) {
OuterCheck_timeout_only ==
    /\ pc = "outer"
    /\ IF has_timed_out(max_cycles, tcycle)
       THEN /\ loop_exit' = "timeout"
            /\ pc' = "stop"
       ELSE /\ pc' = "tasks"
            /\ UNCHANGED loop_exit
    /\ calls' = {"has_timed_out"}
    /\ UNCHANGED cycles
    /\ UNCHANGED <<bridges, fpga_models, config, sched, idx, tcycle, remaining,
                   counts, report>>

\* while (!simulation_complete() && !exit_code() && !has_timed_out()) {
OuterCheck_exit_code ==
    /\ pc = "outer"
    /\ IF simulation_complete(bridges) \/ exit_code(bridges) # 0
       THEN /\ loop_exit' = "complete"
            /\ pc' = "stop"
       ELSE IF has_timed_out(max_cycles, tcycle)
       THEN /\ loop_exit' = "timeout"
            /\ pc' = "stop"
       ELSE /\ pc' = "tasks"
            /\ UNCHANGED loop_exit
    /\ calls' = ConditionCalls(bridges) \cup
                    (IF Len(bridges) > 0 THEN {"exit_code"} ELSE {})
    /\ UNCHANGED cycles
    /\ UNCHANGED <<bridges, fpga_models, config, sched, idx, tcycle, remaining,
                   counts, report>>

\* the loop body without its run_scheduled_tasks() call
OuterCheck_no_tasks ==
    /\ pc = "outer"
    /\ IF simulation_complete(bridges)
       THEN /\ loop_exit' = "complete"
            /\ pc' = "stop"
       ELSE IF has_timed_out(max_cycles, tcycle)
       THEN /\ loop_exit' = "timeout"
            /\ pc' = "stop"
       ELSE /\ pc' = "step"
            /\ UNCHANGED loop_exit
    /\ calls' = ConditionCalls(bridges)
    /\ UNCHANGED cycles
    /\ UNCHANGED <<bridges, fpga_models, config, sched, idx, tcycle, remaining,
                   counts, report>>

\* while (!simulation_complete() && !has_timed_out()) {
OuterCheck ==
    /\ pc = "outer"
    /\ IF simulation_complete(bridges)
       THEN /\ loop_exit' = "complete"
            /\ pc' = "stop"
       ELSE IF has_timed_out(max_cycles, tcycle)
       THEN /\ loop_exit' = "timeout"
            /\ pc' = "stop"
       ELSE /\ pc' = "tasks"
            /\ UNCHANGED loop_exit
    /\ calls' = ConditionCalls(bridges)
    /\ UNCHANGED cycles
    /\ UNCHANGED <<bridges, fpga_models, config, sched, idx, tcycle, remaining,
                   counts, report>>

\* uint64_t profile_models(): for (auto mod: fpga_models) mod->profile();
profile_models(ms) ==
    [e \in 1..Len(ms) |->
        LET i == CHOOSE k \in 1..Len(ms) : range_for(Len(ms), k) = e IN
        [ms[e] EXCEPT !.profiles = @ + 1, !.profiled_as = i]]

\* run_scheduled_tasks();
RunScheduledTasks ==
    /\ pc = "tasks"
    /\ task_runs' = task_runs + 1
    /\ IF task_active /\ task_countdown = 0
       THEN /\ fpga_models' = profile_models(fpga_models)
            /\ task_countdown' = profile_interval
       ELSE UNCHANGED <<fpga_models, task_countdown>>
    /\ pc' = "step"
    /\ calls' = {}
    /\ UNCHANGED cycles
    /\ UNCHANGED <<bridges, config, task_active, idx, tcycle, remaining,
                   resets, zeroed, commenced, steps, passes, loop_exit, report>>

\* get_largest_stepsize(): the platform's limit, cut to the next due task
get_largest_stepsize(limit) ==
    IF task_active THEN Min(limit, task_countdown) ELSE limit

\* step(0, false): a step that does not advance target time
Step_zero ==
    /\ pc = "step"
    /\ steps < MaxSteps
    /\ steps' = steps + 1
    /\ pc' = "inner"
    /\ calls' = {}
    /\ UNCHANGED cycles
    /\ UNCHANGED <<bridges, fpga_models, config, sched, idx, tcycle,
                   remaining, resets, zeroed, commenced, task_runs, passes,
                   loop_exit, report>>

\* step(limit, false): the step size not cut to the next due task
Step_uncut ==
    /\ pc = "step"
    /\ steps < MaxSteps
    /\ \E limit \in StepLimits :
          /\ remaining' = remaining + limit
          /\ task_countdown' = IF task_active THEN task_countdown - limit
                               ELSE task_countdown
    /\ steps' = steps + 1
    /\ pc' = "inner"
    /\ calls' = {}
    /\ UNCHANGED cycles
    /\ UNCHANGED <<bridges, fpga_models, config, task_active, idx, tcycle,
                   resets, zeroed, commenced, task_runs, passes, loop_exit,
                   report>>

\* the advance step profiling the models itself
Step_profiling ==
    /\ pc = "step"
    /\ steps < MaxSteps
    /\ \E limit \in StepLimits :
          LET n == get_largest_stepsize(limit) IN
          /\ remaining' = remaining + n
          /\ task_countdown' = IF task_active THEN task_countdown - n
                               ELSE task_countdown
    /\ fpga_models' = profile_models(fpga_models)
    /\ steps' = steps + 1
    /\ pc' = "inner"
    /\ calls' = {}
    /\ UNCHANGED cycles
    /\ UNCHANGED <<bridges, config, task_active, idx, tcycle,
                   resets, zeroed, commenced, task_runs, passes, loop_exit,
                   report>>

\* step(get_largest_stepsize(), false);
Step ==
    /\ pc = "step"
    /\ steps < MaxSteps
    /\ \E limit \in StepLimits :
          LET n == get_largest_stepsize(limit) IN
          /\ remaining' = remaining + n
          /\ task_countdown' = IF task_active THEN task_countdown - n
                               ELSE task_countdown
    /\ steps' = steps + 1
    /\ pc' = "inner"
    /\ calls' = {}
    /\ UNCHANGED cycles
    /\ UNCHANGED <<bridges, fpga_models, config, task_active, idx, tcycle,
                   resets, zeroed, commenced, task_runs, passes, loop_exit,
                   report>>

\* while (!done() && !simulation_complete() && !exit_code()) {
InnerCheck_exit_code ==
    /\ pc = "inner"
    /\ \E k \in 0..remaining :
          LET done == (remaining - k = 0) IN
          /\ tcycle' = tcycle + k
          /\ remaining' = remaining - k
          /\ \E s \in 0..host_stall : hcycle' = hcycle + host_rate * k + s
          /\ UNCHANGED <<start_hcycle, loop_hcycle, hcycles>>
          /\ IF ~done /\ ~simulation_complete(bridges)
                      /\ exit_code(bridges) = 0
             THEN /\ passes < MaxPasses
                  /\ passes' = passes + 1
                  /\ pc' = "tick"
                  /\ idx' = 1
             ELSE /\ pc' = "outer"
                  /\ UNCHANGED <<passes, idx>>
          /\ calls' = IF done THEN {} ELSE TerminateCalls(bridges)
    /\ UNCHANGED <<bridges, fpga_models, config, sched, resets, zeroed,
                   commenced, steps, task_runs, loop_exit, report>>

\* while (!done() && !simulation_complete() && !has_timed_out()) {
InnerCheck_timeout ==
    /\ pc = "inner"
    /\ \E k \in 0..remaining :
          LET done == (remaining - k = 0) IN
          /\ tcycle' = tcycle + k
          /\ remaining' = remaining - k
          /\ \E s \in 0..host_stall : hcycle' = hcycle + host_rate * k + s
          /\ UNCHANGED <<start_hcycle, loop_hcycle, hcycles>>
          /\ IF ~done /\ ~simulation_complete(bridges)
                      /\ ~has_timed_out(max_cycles, tcycle + k)
             THEN /\ passes < MaxPasses
                  /\ passes' = passes + 1
                  /\ pc' = "tick"
                  /\ idx' = 1
             ELSE /\ pc' = "outer"
                  /\ UNCHANGED <<passes, idx>>
          /\ calls' = IF done THEN {} ELSE ConditionCalls(bridges)
    /\ UNCHANGED <<bridges, fpga_models, config, sched, resets, zeroed,
                   commenced, steps, task_runs, loop_exit, report>>

\* while (!done() && !simulation_complete()) {
InnerCheck ==
    /\ pc = "inner"
    /\ \E k \in 0..remaining :
          LET done == (remaining - k = 0) IN
          /\ tcycle' = tcycle + k
          /\ remaining' = remaining - k
          /\ \E s \in 0..host_stall : hcycle' = hcycle + host_rate * k + s
          /\ UNCHANGED <<start_hcycle, loop_hcycle, hcycles>>
          /\ IF ~done /\ ~simulation_complete(bridges)
             THEN /\ passes < MaxPasses
                  /\ passes' = passes + 1
                  /\ pc' = "tick"
                  /\ idx' = 1
             ELSE /\ pc' = "outer"
                  /\ UNCHANGED <<passes, idx>>
          /\ calls' = IF done THEN {} ELSE TerminateCalls(bridges)
    /\ UNCHANGED <<bridges, fpga_models, config, sched, resets, zeroed,
                   commenced, steps, task_runs, loop_exit, report>>

\* the pass breaks off behind a driver whose terminate() is true
Tick_until_terminated ==
    /\ pc = "tick"
    /\ IF idx <= Len(bridges) /\ ~simulation_complete(bridges)
       THEN /\ \E t \in BOOLEAN, c \in CodeVals :
                 LET e == range_for(Len(bridges), idx) IN
                 bridges' = [bridges EXCEPT ![e].ticks = @ + 1,
                                            ![e].terminate = t,
                                            ![e].exit_code = c]
            /\ idx' = idx + 1
            /\ pc' = pc
            /\ calls' = {"tick"}
       ELSE /\ pc' = "inner"
            /\ idx' = 1
            /\ calls' = {}
            /\ UNCHANGED bridges
    /\ UNCHANGED cycles
    /\ UNCHANGED <<fpga_models, config, sched, tcycle, remaining, counts,
                   loop_exit, report>>

\* for (auto &e: bridges) e->tick();
Tick ==
    /\ pc = "tick"
    /\ IF idx <= Len(bridges)
       THEN /\ \E t \in BOOLEAN, c \in CodeVals :
                 LET e == range_for(Len(bridges), idx) IN
                 bridges' = [bridges EXCEPT ![e].ticks = @ + 1,
                                            ![e].terminate = t,
                                            ![e].exit_code = c]
            /\ idx' = idx + 1
            /\ pc' = pc
            /\ calls' = {"tick"}
       ELSE /\ pc' = "inner"
            /\ idx' = 1
            /\ calls' = {}
            /\ UNCHANGED bridges
    /\ UNCHANGED cycles
    /\ UNCHANGED <<fpga_models, config, sched, tcycle, remaining, counts,
                   loop_exit, report>>

\* uint64_t end_cycle = actual_tcycle();
\* uint64_t hcycles = hcycle() - start_hcycle; ... fprintf(stderr, "\n");
Stop ==
    /\ pc = "stop"
    /\ \E k \in 0..remaining :
          /\ tcycle' = tcycle + k
          /\ remaining' = remaining - k
          /\ end_cycle' = tcycle + k
          /\ \E s \in 0..host_stall :
                /\ hcycle' = hcycle + host_rate * k + s
                /\ hcycles' = hcycle + host_rate * k + s - start_hcycle
    /\ UNCHANGED <<start_hcycle, loop_hcycle>>
    /\ pc' = "scan"
    /\ calls' = {}
    /\ UNCHANGED <<bridges, fpga_models, config, sched, idx, counts, loop_exit,
                   exitcode, verdicts, metrics, pass, status>>

\* int exitcode = exit_code();
ScanExitCode ==
    /\ pc = "scan"
    /\ exitcode' = exit_code(bridges)
    /\ pc' = "verdict"
    /\ calls' = IF Len(bridges) > 0 THEN {"exit_code"} ELSE {}
    /\ UNCHANGED cycles
    /\ UNCHANGED <<bridges, fpga_models, config, sched, idx, tcycle, remaining,
                   counts, loop_exit, end_cycle, verdicts, metrics, pass,
                   status>>

\* else if (has_timed_out()): the timeout wins over a clean termination
verdict_of_timeout_first(ec, bs, mc, t) ==
    IF ec # 0 THEN [text |-> "FAILED_code", code |-> ec]
    ELSE IF has_timed_out(mc, t)
    THEN [text |-> "FAILED_timeout", code |-> 0]
    ELSE [text |-> "PASSED", code |-> 0]

\* the timeout branch left out: everything without a code has passed
verdict_of_no_timeout(ec, bs, mc, t) ==
    IF ec # 0 THEN [text |-> "FAILED_code", code |-> ec]
    ELSE [text |-> "PASSED", code |-> 0]

\* if (exitcode) FAILED (code) else if (!simulation_complete() &&
\* has_timed_out()) FAILED (timeout) else PASSED
verdict_of(ec, bs, mc, t) ==
    IF ec # 0 THEN [text |-> "FAILED_code", code |-> ec]
    ELSE IF ~simulation_complete(bs) /\ has_timed_out(mc, t)
    THEN [text |-> "FAILED_timeout", code |-> 0]
    ELSE [text |-> "PASSED", code |-> 0]

\* simulation_complete() evaluated ahead of the branches
verdict_calls_eager(ec, bs) == TerminateCalls(bs)

\* driver methods the verdict branches invoke
verdict_calls(ec, bs) == IF ec # 0 THEN {} ELSE ConditionCalls(bs)

PrintVerdict ==
    /\ pc = "verdict"
    /\ verdicts' = Append(verdicts,
                          verdict_of(exitcode, bridges, max_cycles, tcycle))
    /\ calls' = verdict_calls(exitcode, bridges)
    /\ pc' = "metrics"
    /\ UNCHANGED cycles
    /\ UNCHANGED <<bridges, fpga_models, config, sched, idx, tcycle, remaining,
                   counts, loop_exit, end_cycle, exitcode, metrics, pass,
                   status>>

\* the "time elapsed ... simulation speed" and FMR lines
PrintMetrics ==
    /\ pc = "metrics"
    /\ metrics' = metrics + 1
    /\ pc' = "expect"
    /\ calls' = {}
    /\ UNCHANGED cycles
    /\ UNCHANGED <<bridges, fpga_models, config, sched, idx, tcycle, remaining,
                   counts, loop_exit, end_cycle, exitcode, verdicts, pass,
                   status>>

\* expect(!exitcode, NULL);
Expect ==
    /\ pc = "expect"
    /\ pass' = (pass /\ exitcode = 0)
    /\ pc' = "finish_models"
    /\ idx' = 1
    /\ calls' = {}
    /\ UNCHANGED cycles
    /\ UNCHANGED <<bridges, fpga_models, config, sched, tcycle, remaining,
                   counts, loop_exit, end_cycle, exitcode, verdicts, metrics,
                   status>>

\* the model finish loop stops one element early (idx < size)
FinishModels_short ==
    /\ pc = "finish_models"
    /\ IF idx < Len(fpga_models)
       THEN /\ fpga_models' = [fpga_models EXCEPT
                    ![range_for(Len(fpga_models), idx)].finishes = @ + 1]
            /\ idx' = idx + 1
            /\ pc' = pc
       ELSE /\ pc' = "finish_bridges"
            /\ idx' = 1
            /\ UNCHANGED fpga_models
    /\ calls' = {}
    /\ UNCHANGED cycles
    /\ UNCHANGED <<bridges, config, sched, tcycle, remaining, counts,
                   loop_exit, report>>

\* for (auto &e: fpga_models) e->finish();
FinishModels ==
    /\ pc = "finish_models"
    /\ IF idx <= Len(fpga_models)
       THEN /\ fpga_models' = [fpga_models EXCEPT
                    ![range_for(Len(fpga_models), idx)].finishes = @ + 1]
            /\ idx' = idx + 1
            /\ pc' = pc
       ELSE /\ pc' = "finish_bridges"
            /\ idx' = 1
            /\ UNCHANGED fpga_models
    /\ calls' = {}
    /\ UNCHANGED cycles
    /\ UNCHANGED <<bridges, config, sched, tcycle, remaining, counts,
                   loop_exit, report>>

\* the run returns right after a failed expect(), leaving the bridges
FinishBridges_unless_failed ==
    /\ pc = "finish_bridges"
    /\ IF idx <= Len(bridges) /\ pass
       THEN /\ bridges' = [bridges EXCEPT
                    ![range_for(Len(bridges), idx)].finishes = @ + 1]
            /\ idx' = idx + 1
            /\ pc' = pc
            /\ calls' = {"finish"}
       ELSE /\ pc' = "returned"
            /\ idx' = 1
            /\ calls' = {}
            /\ UNCHANGED bridges
    /\ UNCHANGED cycles
    /\ UNCHANGED <<fpga_models, config, sched, tcycle, remaining, counts,
                   loop_exit, report>>

\* for (auto &e: bridges) e->finish();
FinishBridges ==
    /\ pc = "finish_bridges"
    /\ IF idx <= Len(bridges)
       THEN /\ bridges' = [bridges EXCEPT
                    ![range_for(Len(bridges), idx)].finishes = @ + 1]
            /\ idx' = idx + 1
            /\ pc' = pc
            /\ calls' = {"finish"}
       ELSE /\ pc' = "returned"
            /\ idx' = 1
            /\ calls' = {}
            /\ UNCHANGED bridges
    /\ UNCHANGED cycles
    /\ UNCHANGED <<fpga_models, config, sched, tcycle, remaining, counts,
                   loop_exit, report>>

\* the process ends with the status of the run
Exit ==
    /\ pc = "returned"
    /\ status' = exitcode
    /\ pc' = "exited"
    /\ calls' = {}
    /\ UNCHANGED cycles
    /\ UNCHANGED <<bridges, fpga_models, config, sched, idx, tcycle, remaining,
                   counts, loop_exit, end_cycle, exitcode, verdicts, metrics,
                   pass>>

Next ==
    \/ InitModels
    \/ InitBridges
    \/ ZeroOutDram
    \/ Commence
    \/ TargetReset
    \/ OuterCheck
    \/ RunScheduledTasks
    \/ Step
    \/ InnerCheck
    \/ Tick
    \/ Stop
    \/ ScanExitCode
    \/ PrintVerdict
    \/ PrintMetrics
    \/ Expect
    \/ FinishModels
    \/ FinishBridges
    \/ Exit

Spec == Init /\ [][Next]_vars

\* ------------------------------------------- the exit-code scan taken alone
\* run() at "int exitcode = exit_code();" after a loop that the last driver
\* ended, for every list of driver exit codes
InitExitCode ==
    /\ \E k \in 1..MaxScanned :
          \E cs \in [1..k -> ExitCodes] :
             bridges = [i \in 1..k |->
                           [terminate |-> (i = k), exit_code |-> cs[i],
                            inits |-> 1, ticks |-> 0, finishes |-> 0]]
    /\ fpga_models = <<>>
    /\ max_cycles = Unbounded
    /\ profile_interval = Unbounded
    /\ do_zero_out_dram = FALSE
    /\ task_active = FALSE
    /\ task_countdown = 0
    /\ pc = "scan"
    /\ idx = 1
    /\ tcycle = ResetPulse
    /\ remaining = 0
    /\ resets = <<ResetPulse>>
    /\ zeroed = 0
    /\ commenced = TRUE
    /\ steps = 0
    /\ task_runs = 0
    /\ passes = 0
    /\ loop_exit = "complete"
    /\ end_cycle = ResetPulse
    /\ exitcode = 0
    /\ verdicts = <<>>
    /\ metrics = 0
    /\ pass = TRUE
    /\ status = -1
    /\ calls = {}
    /\ host_rate = 1
    /\ host_stall = 0
    /\ hcycle = ResetPulse
    /\ start_hcycle = 0
    /\ loop_hcycle = ResetPulse
    /\ hcycles = ResetPulse

SpecExitCode == InitExitCode /\ [][ScanExitCode]_vars

\* ------------------------------- a task registered with its own period
\* the state after construction when the periodic task is registered with
\* its period as first interval, register_task(callback, profile_interval),
\* and its callback returns profile_interval
InitTask ==
    /\ bridges \in SeqsUpTo(1, NewBridge)
    /\ fpga_models = <<NewModel>>
    /\ max_cycles \in MaxCyclesVals
    /\ profile_interval \in TaskIntervals
    /\ do_zero_out_dram = FALSE
    /\ task_active = TRUE
    /\ task_countdown = profile_interval
    /\ pc = "init_models"
    /\ idx = 1
    /\ tcycle = 0
    /\ remaining = 0
    /\ resets = <<>>
    /\ zeroed = 0
    /\ commenced = FALSE
    /\ steps = 0
    /\ task_runs = 0
    /\ passes = 0
    /\ loop_exit = "none"
    /\ end_cycle = 0
    /\ exitcode = 0
    /\ verdicts = <<>>
    /\ metrics = 0
    /\ pass = TRUE
    /\ status = -1
    /\ calls = {}
    /\ host_rate = 1
    /\ host_stall = 0
    /\ hcycle = 0
    /\ start_hcycle = 0
    /\ loop_hcycle = 0
    /\ hcycles = 0

SpecTask == InitTask /\ [][Next]_vars

\* --------------------------------------------- the host cycle counter
\* the state after construction on platforms that spend one or more host
\* cycles on a target cycle and may stall while polled
InitCycles ==
    /\ bridges \in SeqsUpTo(1, NewBridge)
    /\ fpga_models = <<>>
    /\ max_cycles \in MaxCyclesVals
    /\ profile_interval \in ProfileIntervals
    /\ do_zero_out_dram \in BOOLEAN
    /\ task_active = (profile_interval # Unbounded)
    /\ task_countdown = 0
    /\ pc = "init_models"
    /\ idx = 1
    /\ tcycle = 0
    /\ remaining = 0
    /\ resets = <<>>
    /\ zeroed = 0
    /\ commenced = FALSE
    /\ steps = 0
    /\ task_runs = 0
    /\ passes = 0
    /\ loop_exit = "none"
    /\ end_cycle = 0
    /\ exitcode = 0
    /\ verdicts = <<>>
    /\ metrics = 0
    /\ pass = TRUE
    /\ status = -1
    /\ calls = {}
    /\ host_rate \in HostRates
    /\ host_stall \in HostStalls
    /\ hcycle = 0
    /\ start_hcycle = 0
    /\ loop_hcycle = 0
    /\ hcycles = 0

SpecCycles == InitCycles /\ [][Next]_vars

\* -------------------------------------------------- a run that goes on
\* the state after construction with one or two bridge drivers; run() keeps
\* executing its next statement, every call it makes returns, and done()
\* is true after at most MaxPasses polls that found it false
InitLive ==
    /\ bridges \in {<<NewBridge>>, <<NewBridge, NewBridge>>}
    /\ fpga_models \in SeqsUpTo(1, NewModel)
    /\ max_cycles \in MaxCyclesVals
    /\ profile_interval \in ProfileIntervals
    /\ do_zero_out_dram = FALSE
    /\ task_active = (profile_interval # Unbounded)
    /\ task_countdown = 0
    /\ pc = "init_models"
    /\ idx = 1
    /\ tcycle = 0
    /\ remaining = 0
    /\ resets = <<>>
    /\ zeroed = 0
    /\ commenced = FALSE
    /\ steps = 0
    /\ task_runs = 0
    /\ passes = 0
    /\ loop_exit = "none"
    /\ end_cycle = 0
    /\ exitcode = 0
    /\ verdicts = <<>>
    /\ metrics = 0
    /\ pass = TRUE
    /\ status = -1
    /\ calls = {}
    /\ host_rate = 1
    /\ host_stall = 0
    /\ hcycle = 0
    /\ start_hcycle = 0
    /\ loop_hcycle = 0
    /\ hcycles = 0

SpecLive == InitLive /\ [][Next]_vars /\ WF_vars(Next)

\* =================================================================== claims
Bridges == 1..Len(bridges)
Models == 1..Len(fpga_models)
AnyTerminated == \E i \in Bridges : bridges[i].terminate
Codes == [i \in Bridges |-> bridges[i].exit_code]
InLoop == pc \in {"outer", "tasks", "step", "inner", "tick"}
AfterLoop == pc \in {"stop", "scan", "verdict", "metrics", "expect",
                     "finish_models", "finish_bridges", "returned", "exited"}
Reported == pc \in {"metrics", "expect", "finish_models", "finish_bridges",
                    "returned", "exited"}
Returned == pc \in {"returned", "exited"}
\* target cycles asked of the platform by the step() calls so far
Stepped == tcycle + remaining - ResetPulse

\* the calls counted by field f went down the list in registration order:
\* an element has never received more calls than one registered before it,
\* and never lags the first element by more than the pass under way
InRegistrationOrder(v, f) ==
    \A i, j \in 1..Len(v) :
        i < j => /\ v[i][f] >= v[j][f]
                 /\ v[i][f] - v[j][f] <= 1

C1_WitnessMidPass ==
    /\ pc = "tick"
    /\ Len(bridges) = 2
    /\ bridges[1].ticks = 2
    /\ bridges[2].ticks = 1

\* C2: termination is an OR over the drivers: when any driver's terminate()
\* is true, whatever the others return, the inner tick loop exits at its
\* check and the outer loop stops at its check.
C2_TerminationIsDisjunction ==
    [][ /\ (pc = "inner" /\ AnyTerminated) => pc' = "outer"
        /\ (pc = "outer" /\ AnyTerminated) => pc' = "stop" ]_vars

C2_Witness ==
    /\ pc = "stop"
    /\ loop_exit = "complete"
    /\ Len(bridges) = 2
    /\ bridges[1].terminate
    /\ ~bridges[2].terminate
    /\ passes > 0

\* C3: the orchestrator's exit code is the first non-zero exit_code() in
\* registration order, 0 when every driver returns 0; drivers returning
\* [0, 0, 3, 5] give 3, not 5 and not 8.
C3_FirstNonZeroExitCode ==
    pc = "verdict" =>
        /\ (\A i \in Bridges : Codes[i] = 0) => exitcode = 0
        /\ \A i \in Bridges :
              (Codes[i] # 0 /\ \A j \in 1..(i - 1) : Codes[j] = 0)
                  => exitcode = Codes[i]
        /\ Codes = <<0, 0, 3, 5>> => exitcode = 3

C3_Witness ==
    /\ pc = "verdict"
    /\ Codes = <<0, 0, 3, 5>>
    /\ exitcode = 3

\* C4: exactly one verdict is reported: FAILED (code = C) when the exit code
\* C is non-zero, also after a timeout; FAILED (timeout) when the exit code
\* is 0, the loop stopped by timeout and no driver's terminate() is true;
\* PASSED otherwise, also when a driver terminated with code 0 while the
\* cycle budget ran out.
C4_OneVerdict ==
    /\ Len(verdicts) <= 1
    /\ Reported =>
          /\ Len(verdicts) = 1
          /\ verdicts[1] =
                IF exitcode # 0
                THEN [text |-> "FAILED_code", code |-> exitcode]
                ELSE IF loop_exit = "timeout" /\ ~AnyTerminated
                THEN [text |-> "FAILED_timeout", code |-> 0]
                ELSE [text |-> "PASSED", code |-> 0]

C4_Witness ==
    /\ pc = "metrics"
    /\ verdicts = <<[text |-> "PASSED", code |-> 0]>>
    /\ AnyTerminated
    /\ steps > 0
    /\ passes > 0
    /\ max_cycles # -1
    /\ tcycle >= max_cycles

C4_WitnessCodeAfterTimeout ==
    /\ pc = "metrics"
    /\ loop_exit = "timeout"
    /\ verdicts = <<[text |-> "FAILED_code", code |-> 7]>>

\* C5 as stated: with a finite max_cycles = N and no driver ever returning
\* terminate() = true, the loop stops once the target cycles reach N, the
\* verdict is FAILED (timeout) and the exit code is 0.
C5_AsStated ==
    (max_cycles # -1 /\ ~AnyTerminated) =>
        /\ pc \in {"tasks", "step"} => tcycle < max_cycles
        /\ Reported => /\ end_cycle >= max_cycles
                       /\ verdicts[1].text = "FAILED_timeout"
                       /\ exitcode = 0

\* C5, amended: with a finite max_cycles = N and no driver ever returning
\* terminate() = true, the loop body is not entered again once the target
\* cycles have reached N, and the loop has stopped with at least N cycles;
\* the verdict is FAILED (timeout) with exit code 0 when every driver's
\* exit_code() is 0, and FAILED (code = C) with the first non-zero code C
\* when some driver reports one.
C5_TimeoutStopsTheLoop ==
    (max_cycles # -1 /\ ~AnyTerminated) =>
        /\ pc \in {"tasks", "step"} => tcycle < max_cycles
        /\ AfterLoop => loop_exit = "timeout" /\ tcycle >= max_cycles
        /\ Reported =>
              /\ end_cycle >= max_cycles
              /\ (\A i \in Bridges : Codes[i] = 0) =>
                    /\ verdicts[1].text = "FAILED_timeout"
                    /\ exitcode = 0
              /\ (\E i \in Bridges : Codes[i] # 0) =>
                    /\ verdicts[1].text = "FAILED_code"
                    /\ exitcode # 0
                    /\ verdicts[1].code = exitcode

C5_Witness ==
    /\ pc = "metrics"
    /\ max_cycles = 53
    /\ steps = 2
    /\ passes > 0
    /\ Len(bridges) = 2
    /\ ~AnyTerminated
    /\ end_cycle >= 53
    /\ verdicts = <<[text |-> "FAILED_timeout", code |-> 0]>>

\* C6: finalization runs for every verdict: after the main loop has ended,
\* and not before, finish() is called exactly once on every FPGA model and
\* every bridge driver, whether the run PASSED, FAILED with a code or FAILED
\* by timeout.
C6_FinalizationForEveryVerdict ==
    /\ pc \notin {"finish_models", "finish_bridges", "returned", "exited"} =>
          /\ \A i \in Models : fpga_models[i].finishes = 0
          /\ \A i \in Bridges : bridges[i].finishes = 0
    /\ Returned =>
          /\ Len(verdicts) = 1
          /\ verdicts[1].text \in {"PASSED", "FAILED_code", "FAILED_timeout"}
          /\ \A i \in Models : fpga_models[i].finishes = 1
          /\ \A i \in Bridges : bridges[i].finishes = 1

C6_Witness ==
    /\ pc = "exited"
    /\ verdicts[1].text = "FAILED_code"
    /\ Len(bridges) = 2
    /\ Len(fpga_models) = 1
    /\ \A i \in Bridges : bridges[i].finishes = 1
    /\ \A i \in Models : fpga_models[i].finishes = 1

C6_WitnessTimeout ==
    /\ pc = "exited"
    /\ verdicts[1].text = "FAILED_timeout"
    /\ Len(bridges) = 2
    /\ \A i \in Bridges : bridges[i].finishes = 1

C6_WitnessPassed ==
    /\ pc = "exited"
    /\ verdicts[1].text = "PASSED"
    /\ Len(bridges) = 2
    /\ \A i \in Bridges : bridges[i].finishes = 1

\* C7: with a non-zero exit code the run raises the failure (the failed
\* expect) after the verdict and the metrics lines and before the first
\* finish(); from the exit-code scan to the first finish() no driver's
\* tick(), terminate() or exit_code() is invoked; and the run is never left
\* looking as if it had passed.
C7_FailLoudBeforeFinalization ==
    /\ pc = "expect" =>
          /\ Len(verdicts) = 1
          /\ metrics = 1
          /\ \A i \in Models : fpga_models[i].finishes = 0
          /\ \A i \in Bridges : bridges[i].finishes = 0
    /\ (AfterLoop /\ pc \notin {"stop", "scan"} /\ exitcode # 0) =>
          /\ pc \in {"metrics", "expect", "finish_models"}
                => calls \cap {"tick", "terminate", "exit_code"} = {}
          /\ (pc = "finish_bridges" /\ idx = 1)
                => calls \cap {"tick", "terminate", "exit_code"} = {}
          /\ Reported => verdicts[1].text = "FAILED_code"
          /\ pc \in {"finish_models", "finish_bridges", "returned", "exited"}
                => ~pass
    /\ pass => (exitcode = 0 \/ pc \in {"verdict", "metrics", "expect"})

C7_Witness ==
    /\ pc = "finish_bridges"
    /\ idx = 1
    /\ exitcode = 7
    /\ ~pass
    /\ metrics = 1
    /\ Len(bridges) = 2
    /\ \A i \in Bridges : bridges[i].finishes = 0

C8_WitnessTimeout ==
    /\ pc = "exited"
    /\ verdicts[1].text = "FAILED_timeout"
    /\ status = 0

\* C9 as stated: init() of every bridge driver is called exactly once, after
\* target_reset(50) has been issued and before the main loop begins.
C9_AsStated ==
    /\ \A i \in Bridges : bridges[i].inits <= 1
    /\ \A i \in Bridges : bridges[i].inits > 0 => Len(resets) > 0
    /\ InLoop => \A i \in Bridges : bridges[i].inits = 1

\* C9, amended: init() of every bridge driver is called exactly once, before
\* target_reset(50) is issued and before the main loop begins.
C9_BridgeInitBeforeReset ==
    /\ \A i \in Bridges : bridges[i].inits <= 1
    /\ (pc = "reset" \/ Len(resets) > 0) =>
          \A i \in Bridges : bridges[i].inits = 1
    /\ (InLoop \/ AfterLoop) => \A i \in Bridges : bridges[i].inits = 1
    /\ pc = "init_bridges" => resets = <<>>

C9_Witness ==
    /\ pc = "outer"
    /\ steps = 0
    /\ Len(bridges) = 2
    /\ \A i \in Bridges : bridges[i].inits = 1
    /\ resets = <<50>>

\* C10: target reset is asserted exactly once per run, for 50 target cycles,
\* and before any data exchange: no step(), no scheduled-task run and no
\* bridge tick() happens before target_reset(50) has been issued.
C10_ResetOncePrecedesExchange ==
    /\ Len(resets) <= 1
    /\ \A k \in 1..Len(resets) : resets[k] = 50
    /\ (InLoop \/ AfterLoop) => resets = <<50>>
    /\ (steps > 0 \/ task_runs > 0 \/ passes > 0
        \/ \E i \in Bridges : bridges[i].ticks > 0) => resets = <<50>>
    /\ resets = <<>> =>
          /\ steps = 0 /\ task_runs = 0 /\ passes = 0 /\ tcycle = 0
          /\ \A i \in Bridges : bridges[i].ticks = 0

C10_Witness ==
    /\ pc = "exited"
    /\ resets = <<50>>
    /\ steps = 2
    /\ task_runs = 2
    /\ Len(bridges) = 2
    /\ \A i \in Bridges : bridges[i].ticks = 2

\* C12: every component goes through init -> {tick/profile}* -> finish with
\* no phase overlap: a bridge driver receives tick() only after its init()
\* and before its finish(), an FPGA model receives profile() only after its
\* init() and before its finish(), finish() comes after init(), and no
\* component receives init() or finish() a second time.
C12_NoPhaseOverlap ==
    [][ /\ Len(bridges') = Len(bridges)
        /\ Len(fpga_models') = Len(fpga_models)
        /\ \A i \in Bridges :
              /\ bridges'[i].inits # bridges[i].inits =>
                    /\ bridges[i].inits = 0
                    /\ bridges[i].ticks = 0
                    /\ bridges[i].finishes = 0
              /\ bridges'[i].ticks # bridges[i].ticks =>
                    /\ bridges[i].inits = 1
                    /\ bridges[i].finishes = 0
              /\ bridges'[i].finishes # bridges[i].finishes =>
                    /\ bridges[i].inits = 1
                    /\ bridges[i].finishes = 0
        /\ \A i \in Models :
              /\ fpga_models'[i].inits # fpga_models[i].inits =>
                    /\ fpga_models[i].inits = 0
                    /\ fpga_models[i].profiles = 0
                    /\ fpga_models[i].finishes = 0
              /\ fpga_models'[i].profiles # fpga_models[i].profiles =>
                    /\ fpga_models[i].inits = 1
                    /\ fpga_models[i].finishes = 0
              /\ fpga_models'[i].finishes # fpga_models[i].finishes =>
                    /\ fpga_models[i].inits = 1
                    /\ fpga_models[i].finishes = 0 ]_vars

C12_Witness ==
    /\ pc = "exited"
    /\ Len(bridges) = 2
    /\ Len(fpga_models) = 1
    /\ \A i \in Bridges : /\ bridges[i].inits = 1
                          /\ bridges[i].ticks = 2
                          /\ bridges[i].finishes = 1
    /\ \A i \in Models : /\ fpga_models[i].inits = 1
                         /\ fpga_models[i].profiles = 1
                         /\ fpga_models[i].finishes = 1

\* C13: FPGA models come before bridge drivers in both lifecycle phases:
\* init() has been called on every FPGA model before the first bridge
\* driver's init() and before target reset, and finish() has been called on
\* every FPGA model before the first bridge driver's finish().
C13_ModelsBeforeBridges ==
    /\ (pc = "init_bridges" \/ \E i \in Bridges : bridges[i].inits > 0) =>
          \A m \in Models : fpga_models[m].inits = 1
    /\ (pc = "reset" \/ resets # <<>>) =>
          \A m \in Models : fpga_models[m].inits = 1
    /\ (pc = "finish_bridges" \/ \E i \in Bridges : bridges[i].finishes > 0) =>
          \A m \in Models : fpga_models[m].finishes = 1
    /\ pc = "init_models" =>
          /\ resets = <<>>
          /\ \A i \in Bridges : bridges[i].inits = 0
    /\ pc = "finish_models" => \A i \in Bridges : bridges[i].finishes = 0

C13_Witness ==
    /\ pc = "finish_bridges"
    /\ idx = 2
    /\ Len(bridges) = 2
    /\ Len(fpga_models) = 1
    /\ bridges[1].finishes = 1
    /\ bridges[2].finishes = 0
    /\ fpga_models[1].inits = 1
    /\ fpga_models[1].finishes = 1
    /\ resets = <<50>>

\* C14: every outer-loop iteration has the fixed shape: one scheduler run,
\* then exactly one advance step, then zero or more full tick passes, each
\* started only while the platform is not done and no driver has terminated;
\* the number of scheduler runs equals the number of advance steps whenever
\* the loop is at one of its checks, in a pass or over (it is one ahead
\* between the scheduler run and the step of the same iteration), and no
\* tick pass occurs before the first step.
C14_IterationShape ==
    /\ [](/\ pc # "step" => task_runs = steps
          /\ pc = "step" => task_runs = steps + 1
          /\ passes > 0 => steps > 0
          /\ (\E i \in Bridges : bridges[i].ticks > 0) => steps > 0)
    /\ [][ /\ pc = "outer" => pc' \in {"tasks", "stop"}
           /\ pc = "tasks" => pc' = "step" /\ task_runs' = task_runs + 1
           /\ pc = "step" => pc' = "inner" /\ steps' = steps + 1
           /\ pc = "inner" => pc' \in {"tick", "outer"}
           /\ pc = "tick" => pc' \in {"tick", "inner"}
           /\ task_runs' # task_runs => pc = "tasks"
           /\ steps' # steps => pc = "step"
           /\ passes' # passes =>
                 /\ pc = "inner"
                 /\ passes' = passes + 1
                 /\ remaining' > 0
                 /\ ~AnyTerminated
           /\ (pc = "tick" /\ pc' = "inner") =>
                 \A i \in Bridges : bridges[i].ticks = passes ]_vars

C14_Witness ==
    /\ pc = "outer"
    /\ steps = 2
    /\ task_runs = 2
    /\ passes = 1
    /\ Len(bridges) = 2
    /\ \A i \in Bridges : bridges[i].ticks = 1

C15_WitnessDisabled ==
    /\ pc = "exited"
    /\ profile_interval = -1
    /\ steps = 2
    /\ Len(fpga_models) = 1
    /\ fpga_models[1].profiles = 0

C16_WitnessCutStep ==
    /\ pc = "step"
    /\ profile_interval = 3
    /\ Stepped = 3
    /\ steps = 2
    /\ fpga_models[1].profiles = 1

\* C17: the DRAM zeroing pass is one-shot and conditional: with
\* +zero-out-dram it runs exactly once, after all init() calls, before the
\* run is reported as commencing and before target reset; without the flag
\* it never runs.
C17_ZeroOutDramOnce ==
    /\ zeroed <= 1
    /\ ~do_zero_out_dram => zeroed = 0
    /\ pc \in {"init_models", "init_bridges", "zero"} =>
          /\ zeroed = 0
          /\ ~commenced
          /\ resets = <<>>
    /\ (commenced \/ resets # <<>> \/ pc \in {"commence", "reset"}
        \/ InLoop \/ AfterLoop) =>
          zeroed = IF do_zero_out_dram THEN 1 ELSE 0
    /\ zeroed = 1 =>
          /\ \A m \in Models : fpga_models[m].inits = 1
          /\ \A i \in Bridges : bridges[i].inits = 1

C17_Witness ==
    /\ pc = "commence"
    /\ do_zero_out_dram
    /\ zeroed = 1
    /\ ~commenced
    /\ resets = <<>>
    /\ Len(bridges) = 2
    /\ Len(fpga_models) = 1

C17_WitnessEnd ==
    /\ pc = "exited"
    /\ do_zero_out_dram
    /\ zeroed = 1
    /\ steps = 2

\* C18: a bridge driver's exit_code() is queried only after the main loop
\* has exited: no statement of the running loop invokes exit_code() on any
\* driver, and the only statement that does is the exit-code scan made once
\* the loop is over.
C18_ExitCodeAfterLoop ==
    /\ InLoop => "exit_code" \notin calls
    /\ "exit_code" \in calls =>
          /\ pc = "verdict"
          /\ loop_exit \in {"complete", "timeout"}
    /\ pc \in {"init_models", "init_bridges", "zero", "commence", "reset"} =>
          "exit_code" \notin calls

C18_Witness ==
    /\ pc = "verdict"
    /\ "exit_code" \in calls
    /\ loop_exit = "timeout"
    /\ steps = 2
    /\ passes = 2
    /\ Len(bridges) = 2
    /\ exitcode = 7

\* C19: the timeout watchdog is evaluated by the outer loop condition, once
\* before every iteration, and nowhere inside the inner tick loop; the
\* running loop is left only at the outer check, on termination or timeout,
\* and the inner loop only at its own check, on done or termination; a tick
\* pass under way always runs to its last driver, and an exhausted cycle
\* budget does not end the inner loop.
C19_CancellationPoints ==
    /\ []("has_timed_out" \in calls => pc \in {"tasks", "stop", "metrics"})
    /\ [][ /\ pc \in {"tasks", "step", "inner", "tick"} =>
                 "has_timed_out" \notin calls'
           /\ pc' = "tasks" =>
                 /\ pc = "outer"
                 /\ "has_timed_out" \in calls'
                 /\ ~AnyTerminated
                 /\ ~has_timed_out(max_cycles, tcycle)
           /\ pc' = "stop" =>
                 /\ pc = "outer"
                 /\ AnyTerminated \/ has_timed_out(max_cycles, tcycle)
           /\ (pc = "tick" /\ idx <= Len(bridges)) =>
                 /\ pc' = "tick"
                 /\ idx' = idx + 1
           /\ (pc = "tick" /\ idx > Len(bridges)) => pc' = "inner"
           /\ (pc = "inner" /\ pc' = "outer") =>
                 remaining' = 0 \/ AnyTerminated
           /\ (pc = "inner" /\ remaining' > 0 /\ ~AnyTerminated) =>
                 pc' = "tick" ]_vars

C19_Witness ==
    /\ pc = "tick"
    /\ idx = 2
    /\ Len(bridges) = 2
    /\ has_timed_out(max_cycles, tcycle)
    /\ bridges[1].terminate
    /\ bridges[1].ticks = 2
    /\ bridges[2].ticks = 1

C20_WitnessSlowHost ==
    /\ pc = "expect"
    /\ host_rate = 2
    /\ host_stall = 1
    /\ steps = 2
    /\ hcycles > 2 * end_cycle

\* C21: tick passes are never cut short: a pass the inner loop has started
\* calls tick() on every bridge driver, one after the other, also on the
\* drivers registered after one whose terminate() became true during that
\* pass; so at every loop check, and from the end of the loop on, all bridge
\* drivers have received the same number of tick() calls, one per pass.
C21_FullTickPasses ==
    /\ [](pc # "tick" => \A i \in Bridges : bridges[i].ticks = passes)
    /\ [](pc = "tick" =>
             \A i \in Bridges :
                bridges[i].ticks = IF i < idx THEN passes ELSE passes - 1)
    /\ [][ (pc = "tick" /\ idx <= Len(bridges)) =>
                 /\ bridges'[idx].ticks = bridges[idx].ticks + 1
                 /\ \A j \in Bridges \ {idx} :
                       bridges'[j].ticks = bridges[j].ticks
                 /\ pc' = "tick"
                 /\ idx' = idx + 1 ]_vars

C21_Witness ==
    /\ pc = "inner"
    /\ Len(bridges) = 2
    /\ passes = 2
    /\ bridges[1].terminate
    /\ ~bridges[2].terminate
    /\ \A i \in Bridges : bridges[i].ticks = 2

\* the statement that follows each statement behind the loop
AfterLoopOrder ==
    [p \in {"stop", "scan", "verdict", "metrics", "expect", "finish_models",
            "finish_bridges", "returned"} |->
        CASE p = "stop" -> {"scan"}
          [] p = "scan" -> {"verdict"}
          [] p = "verdict" -> {"metrics"}
          [] p = "metrics" -> {"expect"}
          [] p = "expect" -> {"finish_models"}
          [] p = "finish_models" -> {"finish_models", "finish_bridges"}
          [] p = "finish_bridges" -> {"finish_bridges", "returned"}
          [] p = "returned" -> {"exited"}]

\* C22: a driver's terminate() changes only inside its tick(), so it stays
\* true from the first check that sees it; from that check on the
\* orchestrator performs no further step(), no further scheduler run and no
\* further tick pass: the inner check hands over to the outer check, the
\* outer check ends the loop, and what follows is the exit-code scan, the
\* verdict report and finalization, statement by statement.
C22_NothingAfterTermination ==
    [][ ((pc \in {"inner", "outer"} /\ AnyTerminated)
         \/ (AfterLoop /\ loop_exit = "complete")) =>
            /\ steps' = steps
            /\ task_runs' = task_runs
            /\ passes' = passes
            /\ \A i \in Bridges :
                  /\ bridges'[i].ticks = bridges[i].ticks
                  /\ bridges'[i].terminate = bridges[i].terminate
            /\ pc = "inner" => pc' = "outer"
            /\ pc = "outer" => pc' = "stop" /\ loop_exit' = "complete"
            /\ AfterLoop => pc' \in AfterLoopOrder[pc] ]_vars

C22_Witness ==
    /\ pc = "exited"
    /\ loop_exit = "complete"
    /\ max_cycles = -1
    /\ steps = 1
    /\ task_runs = 1
    /\ passes = 1
    /\ Len(bridges) = 2
    /\ bridges[2].terminate
    /\ Len(verdicts) = 1
    /\ \A i \in Bridges : bridges[i].ticks = 1 /\ bridges[i].finishes = 1

\* C23: if at loop entry a driver's terminate() is already true or the
\* timeout predicate already holds, the first loop check ends the loop and
\* the loop body runs zero times: no scheduled task, no step() and no tick()
\* (and no profile()) occurs; init() on every component and the target reset
\* have happened before, and the verdict report and finish() on every
\* component still follow.
C23_ZeroIterationLoop ==
    /\ []((AfterLoop /\ steps = 0) =>
             /\ AnyTerminated \/ has_timed_out(max_cycles, tcycle)
             /\ task_runs = 0
             /\ passes = 0
             /\ \A i \in Bridges : bridges[i].ticks = 0 /\ bridges[i].inits = 1
             /\ \A m \in Models : /\ fpga_models[m].profiles = 0
                                  /\ fpga_models[m].inits = 1
             /\ resets = <<50>>
             /\ end_cycle \in {0, 50}
             /\ Reported => Len(verdicts) = 1
             /\ Returned =>
                   /\ \A i \in Bridges : bridges[i].finishes = 1
                   /\ \A m \in Models : fpga_models[m].finishes = 1)
    /\ [][ (pc = "outer" /\ steps = 0 /\ task_runs = 0
            /\ (AnyTerminated \/ has_timed_out(max_cycles, tcycle))) =>
                /\ pc' = "stop"
                /\ loop_exit' \in {"complete", "timeout"}
                /\ steps' = 0 /\ task_runs' = 0 /\ passes' = 0 ]_vars

C23_Witness ==
    /\ pc = "exited"
    /\ steps = 0
    /\ loop_exit = "complete"
    /\ max_cycles = -1
    /\ Len(bridges) = 2
    /\ Len(fpga_models) = 1
    /\ bridges[2].terminate
    /\ Len(verdicts) = 1
    /\ \A i \in Bridges : bridges[i].finishes = 1

C23_WitnessTimeout ==
    /\ pc = "exited"
    /\ steps = 0
    /\ loop_exit = "timeout"
    /\ ~AnyTerminated
    /\ Len(bridges) = 2
    /\ verdicts = <<[text |-> "FAILED_timeout", code |-> 0]>>
    /\ \A i \in Bridges : bridges[i].finishes = 1

\* some driver reports a non-zero exit code
AnyCode == \E i \in Bridges : Codes[i] # 0

\* C24: a non-zero exit_code() of a driver does not by itself stop the run:
\* with a driver reporting a non-zero code and no driver terminated, the
\* outer check starts another iteration unless the timeout holds, the inner
\* check starts another tick pass unless the platform is done, and the pass
\* ticks the reporting driver like any other; the loop is left only with a
\* driver terminated or the timeout tripped, so with unbounded max_cycles
\* and no terminating driver the run never reaches the verdict.
C24_ExitCodeDoesNotStop ==
    /\ [](AfterLoop => AnyTerminated \/ has_timed_out(max_cycles, tcycle))
    /\ []((max_cycles = -1 /\ ~AnyTerminated) => ~AfterLoop)
    /\ [][ (AnyCode /\ ~AnyTerminated) =>
              /\ (pc = "outer" /\ ~has_timed_out(max_cycles, tcycle)) =>
                    pc' = "tasks"
              /\ (pc = "inner" /\ remaining' > 0) =>
                    /\ pc' = "tick"
                    /\ passes' = passes + 1
              /\ (pc = "tick" /\ idx <= Len(bridges)) =>
                    /\ pc' = "tick"
                    /\ bridges'[idx].ticks = bridges[idx].ticks + 1 ]_vars

C24_Witness ==
    /\ pc = "tick"
    /\ idx = 2
    /\ steps = 2
    /\ passes = 2
    /\ max_cycles = -1
    /\ Len(bridges) = 2
    /\ ~AnyTerminated
    /\ Codes = <<3, 7>>
    /\ bridges[1].ticks = 2

\* C25: with a finite max_cycles, steps that advance target time and a
\* done() that becomes true after every step, run() reaches the verdict and
\* finalization: every component is finished and the run has returned. The
\* inner loop on the other hand is left only when the platform is done or a
\* driver has terminated: while neither holds every inner check starts
\* another full pass, also with the cycle budget exceeded, so the timeout
\* takes no effect before done() is true.
C25_RunEndsWithFiniteBudget ==
    /\ (max_cycles # -1) ~>
          (/\ pc = "exited"
           /\ Len(verdicts) = 1
           /\ \A i \in Bridges : bridges[i].finishes = 1
           /\ \A m \in Models : fpga_models[m].finishes = 1)
    /\ [][ /\ (pc = "inner" /\ remaining' > 0 /\ ~AnyTerminated) =>
                 /\ pc' = "tick"
                 /\ idx' = 1
                 /\ loop_exit' = "none"
           /\ (pc = "inner" /\ pc' # "tick") =>
                 remaining' = 0 \/ AnyTerminated
           /\ pc = "tick" => pc' \in {"tick", "inner"}
           /\ loop_exit' = "timeout" =>
                 (loop_exit = "timeout" \/ (pc = "outer" /\ remaining = 0)) ]_vars

C25_Witness ==
    /\ pc = "exited"
    /\ max_cycles = 53
    /\ loop_exit = "timeout"
    /\ steps = 2
    /\ passes = 2
    /\ Len(bridges) = 2
    /\ ~AnyTerminated
    /\ \A i \in Bridges : bridges[i].finishes = 1

C25_WitnessBudgetExceeded ==
    /\ pc = "tick"
    /\ max_cycles = 53
    /\ tcycle >= 53
    /\ remaining > 0
    /\ ~AnyTerminated
    /\ passes = 2
    /\ loop_exit = "none"

====
